---- MODULE Spec2Model ----
(***************************************************************************)
(* RandomVectorDataset of notebooks/class/2_work_with_pytorch_datasets:    *)
(* a numpy array generated at construction, __len__, and __getitem__ with  *)
(* an optional transform (Compose of Add2 / ToTorchTensor).                *)
(*                                                                         *)
(* Memory is modelled explicitly: the stored array is a flat row-major     *)
(* buffer, and a value is either a view into that buffer (numpy basic      *)
(* indexing of an array with two dimensions, torch.from_numpy of a view)   *)
(* or owns its data (the result of an arithmetic expression, a numpy       *)
(* scalar).  Calls are made by the main process and by the DataLoader      *)
(* worker; a __getitem__ call is a sequence of steps, one per source line  *)
(* and one per transform of the Compose loop, that other calls interleave  *)
(* with.                                                                   *)
(***************************************************************************)
EXTENDS Integers, Sequences, FiniteSets, TLC

\* Bounds of the model.
MaxLen == 2        \* leading dimension of the shape: 0 .. MaxLen
MaxWidth == 2      \* second dimension of the shape: 1 .. MaxWidth
MaxSeed == 1       \* states of the random generator at construction
MaxTransforms == 2 \* length of the list given to Compose

\* DataLoader(..., num_workers=1): one worker process besides the main one.
num_workers == 1

Procs == 0..num_workers

TransformNames == {"Add2", "ToTorchTensor"}

\* Indices a caller passes: every valid one, every negative one numpy wraps,
\* and one beyond each end.
Indices == (-(MaxLen + 1))..MaxLen

\* The values a caller stores when it modifies a returned array in place.
WriteVals == {-1}

RECURSIVE Prod(_)
Prod(shape) == IF shape = <<>> THEN 1 ELSE Head(shape) * Prod(Tail(shape))

Shapes ==
    {<<>>} \cup {<<n>> : n \in 0..MaxLen}
           \cup {<<n, d>> : n \in 0..MaxLen, d \in 1..MaxWidth}

SeqsUpTo(S, n) == UNION {[1..m -> S] : m \in 0..n}

\* transform=None, or Compose(list)
NoTransform == [kind |-> "None", transforms |-> <<>>]
Compose(ts) == [kind |-> "Compose", transforms |-> ts]
TransformArgs == {NoTransform} \cup {Compose(ts) : ts \in SeqsUpTo(TransformNames, MaxTransforms)}

\* The p-th draw of the generator started in state seed.  Draws of one seed
\* differ by multiples of 3, so no element plus 2 is another element.
Rand(seed, p) == seed + 3 * p

\* np.random.randn(*random_shape): a Python float when no dimension is
\* given, an array of that shape otherwise.
randn(shape, seed) ==
    [kind  |-> IF shape = <<>> THEN "float" ELSE "ndarray",
     shape |-> shape,
     data  |-> [p \in 1..Prod(shape) |-> Rand(seed, p)]]

----------------------------------------------------------------------------
\* Values, samples, results

NoValue == [kind |-> "none", shape |-> <<>>, base |-> "own", off |-> 0, data |-> <<>>]
NoSample == [random_vector |-> NoValue]
MkSample(v) == [random_vector |-> v]

NoResult == [tag |-> "none", exc |-> "", sample |-> NoSample, n |-> -1]
Return(s) == [tag |-> "return", exc |-> "", sample |-> s, n |-> -1]
ReturnInt(n) == [tag |-> "return", exc |-> "", sample |-> NoSample, n |-> n]
Raise(e) == [tag |-> "raise", exc |-> e, sample |-> NoSample, n |-> -1]

\* The elements a value denotes: read through to the buffer for a view.
Deref(v, raw) ==
    IF v.base = "raw"
    THEN SubSeq(raw.data, v.off + 1, v.off + Prod(v.shape))
    ELSE v.data

Content(s, raw) ==
    [kind  |-> s.random_vector.kind,
     shape |-> s.random_vector.shape,
     data  |-> Deref(s.random_vector, raw)]

ResultContent(r, raw) ==
    [tag |-> r.tag, exc |-> r.exc, n |-> r.n, content |-> Content(r.sample, raw)]

----------------------------------------------------------------------------
\* numpy indexing: self.raw_data[idx]

\* Mutant: negative indices wrapped without the lower bound check.
NormalizeIndexNoLowerBound(n, idx) ==
    IF idx >= n \/ n = 0 THEN -1 ELSE idx % n

\* The row an index selects on an axis of length n, -1 when numpy raises
\* IndexError: indices -n .. -1 count from the end.
NormalizeIndex(n, idx) ==
    IF idx >= n \/ idx < -n THEN -1
    ELSE IF idx < 0 THEN idx + n ELSE idx

\* Mutant: the row is copied out of the buffer instead of viewed.
SubscriptCopy(raw, idx) ==
    IF raw.kind = "float" THEN [exc |-> "TypeError", value |-> NoValue]
    ELSE LET n == raw.shape[1]
             r == NormalizeIndex(n, idx)
             rest == Tail(raw.shape)
         IN IF r = -1 THEN [exc |-> "IndexError", value |-> NoValue]
            ELSE [exc |-> "",
                  value |-> [kind |-> IF rest = <<>> THEN "float64" ELSE "ndarray",
                             shape |-> rest, base |-> "own", off |-> 0,
                             data |-> SubSeq(raw.data, r * Prod(rest) + 1,
                                             (r + 1) * Prod(rest))]]

\* Mutant: rows counted from one.
SubscriptOneBased(raw, idx) ==
    IF raw.kind = "float" THEN [exc |-> "TypeError", value |-> NoValue]
    ELSE LET n == raw.shape[1]
             r0 == NormalizeIndex(n, idx)
             r == IF r0 = -1 THEN -1 ELSE (r0 + 1) % n
             rest == Tail(raw.shape)
         IN IF r = -1 THEN [exc |-> "IndexError", value |-> NoValue]
            ELSE IF rest = <<>>
            THEN [exc |-> "",
                  value |-> [kind |-> "float64", shape |-> <<>>, base |-> "own",
                             off |-> 0, data |-> <<raw.data[r + 1]>>]]
            ELSE [exc |-> "",
                  value |-> [kind |-> "ndarray", shape |-> rest, base |-> "raw",
                             off |-> r * Prod(rest), data |-> <<>>]]

\* self.raw_data[idx]: a Python float is not subscriptable; an element of
\* a one-dimensional array is a numpy scalar (a copy); a row of an array
\* with more dimensions is a view that shares the array's buffer.
Subscript(raw, idx) ==
    IF raw.kind = "float" THEN [exc |-> "TypeError", value |-> NoValue]
    ELSE LET n == raw.shape[1]
             r == NormalizeIndex(n, idx)
             rest == Tail(raw.shape)
         IN IF r = -1 THEN [exc |-> "IndexError", value |-> NoValue]
            ELSE IF rest = <<>>
            THEN [exc |-> "",
                  value |-> [kind |-> "float64", shape |-> <<>>, base |-> "own",
                             off |-> 0, data |-> <<raw.data[r + 1]>>]]
            ELSE [exc |-> "",
                  value |-> [kind |-> "ndarray", shape |-> rest, base |-> "raw",
                             off |-> r * Prod(rest), data |-> <<>>]]

\* Mutant: the last dimension instead of the first.
LenLastDim(raw) ==
    IF raw.kind = "float" THEN Raise("AttributeError")
    ELSE ReturnInt(raw.shape[Len(raw.shape)])

\* Mutant: a stored scalar counted as an empty dataset.
LenScalarZero(raw) ==
    IF raw.kind = "float" THEN ReturnInt(0)
    ELSE ReturnInt(raw.shape[1])

\* __len__: self.raw_data.shape[0]; a Python float has no attribute shape.
DatasetLen(raw) ==
    IF raw.kind = "float" THEN Raise("AttributeError")
    ELSE ReturnInt(raw.shape[1])

----------------------------------------------------------------------------
\* Transforms.  A call gets the sample and, through the views the sample
\* may hold, access to the stored buffer; it yields the exception raised
\* (or ""), the sample returned and the buffer as the call leaves it.

Plus2(seq) == [p \in 1..Len(seq) |-> seq[p] + 2]

\* Mutant: sample['random_vector'] += 2, the addition done in place.
Add2InPlace(sample, raw) ==
    LET v == sample.random_vector
    IN IF v.base = "raw"
       THEN [exc |-> "", sample |-> sample,
             raw |-> [raw EXCEPT !.data =
                        [p \in 1..Len(raw.data) |->
                            IF p > v.off /\ p <= v.off + Prod(v.shape)
                            THEN raw.data[p] + 2 ELSE raw.data[p]]]]
       ELSE [exc |-> "",
             sample |-> MkSample([v EXCEPT !.data = Plus2(v.data)]),
             raw |-> raw]

\* Add2.__call__: sample['random_vector'] + 2 is a new array (scalar,
\* tensor) of the same kind and shape that owns its data.
Add2(sample, raw) ==
    LET v == sample.random_vector
    IN [exc |-> "",
        sample |-> MkSample([kind |-> v.kind, shape |-> v.shape, base |-> "own",
                             off |-> 0, data |-> Plus2(Deref(v, raw))]),
        raw |-> raw]

\* ToTorchTensor.__call__: torch.from_numpy accepts only a numpy array and
\* returns a tensor that shares the array's memory.
ToTorchTensor(sample, raw) ==
    LET v == sample.random_vector
    IN IF v.kind = "ndarray"
       THEN [exc |-> "", sample |-> MkSample([v EXCEPT !.kind = "tensor"]), raw |-> raw]
       ELSE [exc |-> "TypeError", sample |-> NoSample, raw |-> raw]

CallTransform(name, sample, raw) ==
    IF name = "Add2" THEN Add2(sample, raw) ELSE ToTorchTensor(sample, raw)

\* Mutant: the list walked from its end.
NextTransformReversed(ts, k) == ts[Len(ts) - k]

\* Compose.__call__: for t in self.transforms, in list order; k transforms
\* have been applied so far.
NextTransform(ts, k) == ts[k + 1]

\* `if self.transform:`  None is false, a Compose object is true whatever
\* its list holds.
Truthy(t) == t.kind # "None"

\* Mutant: the call wrapped in try/except, the sample at hand returned.
Swallow(exc, s) == Return(s)

\* An exception raised inside self.transform(sample) leaves __getitem__
\* as it is: no handler surrounds the call.
Propagate(exc, s) == Raise(exc)

\* __getitem__ run from entry to exit with nothing in between: what a
\* single caller gets from a dataset whose buffer is raw.
RECURSIVE ComposeCall(_, _, _, _)
ComposeCall(ts, n, s, raw) ==
    IF n = Len(ts) THEN [exc |-> "", sample |-> s, raw |-> raw]
    ELSE LET r == CallTransform(ts[n + 1], s, raw)
         IN IF r.exc # "" THEN r ELSE ComposeCall(ts, n + 1, r.sample, r.raw)

GetitemAlone(raw, t, i) ==
    LET s == Subscript(raw, i)
    IN IF s.exc # "" THEN [res |-> Raise(s.exc), raw |-> raw]
       ELSE IF ~Truthy(t) THEN [res |-> Return(MkSample(s.value)), raw |-> raw]
       ELSE LET r == ComposeCall(t.transforms, 0, MkSample(s.value), raw)
            IN [res |-> IF r.exc # "" THEN Raise(r.exc) ELSE Return(r.sample),
                raw |-> r.raw]

----------------------------------------------------------------------------
\* State

VARIABLES
    raw_data,   \* self.raw_data
    transform,  \* self.transform
    built,      \* history: raw_data and transform as __init__ left them
    pc,         \* per process: "idle", "l80" (sample built), "l81" (inside
                \* self.transform(sample)), "l82" (at the return), "done"
    op,         \* per process: the call in progress or returned, "len" / "getitem"
    idx,        \* per process: the argument of __getitem__
    sample,     \* per process: the local variable sample
    k,          \* per process: transforms of the Compose list applied so far
    calls,      \* history, per process: the transforms called by this call, in order
    raised,     \* history, per process: the exception a transform raised in this call
    result,     \* per process: what the call returned or raised
    seen        \* history, per process: the contents of result when the call ended

vars == <<raw_data, transform, built, pc, op, idx, sample, k, calls, raised,
          result, seen>>

\* RandomVectorDataset.__init__, every process idle.
Init ==
    /\ \E shape \in Shapes, seed \in 0..MaxSeed : raw_data = randn(shape, seed)
    /\ transform \in TransformArgs
    /\ built = [raw_data |-> raw_data, transform |-> transform]
    /\ pc = [w \in Procs |-> "idle"]
    /\ op = [w \in Procs |-> "none"]
    /\ idx = [w \in Procs |-> 0]
    /\ sample = [w \in Procs |-> NoSample]
    /\ k = [w \in Procs |-> 0]
    /\ calls = [w \in Procs |-> <<>>]
    /\ raised = [w \in Procs |-> ""]
    /\ result = [w \in Procs |-> NoResult]
    /\ seen = [w \in Procs |-> ResultContent(NoResult, raw_data)]

\* The call of process w ends with res, the buffer then being raw.
Finish(w, res, raw) ==
    /\ pc' = [pc EXCEPT ![w] = "done"]
    /\ result' = [result EXCEPT ![w] = res]
    /\ seen' = [seen EXCEPT ![w] = ResultContent(res, raw)]

\* len(dataset)
DatasetLenCall(w) ==
    /\ pc[w] = "idle"
    /\ op' = [op EXCEPT ![w] = "len"]
    /\ Finish(w, DatasetLen(raw_data), raw_data)
    /\ UNCHANGED <<raw_data, transform, built, idx, sample, k, calls, raised>>

\* dataset[i], line 79: sample = {'random_vector': self.raw_data[idx]}
GetitemSample(w, i) ==
    /\ pc[w] = "idle"
    /\ op' = [op EXCEPT ![w] = "getitem"]
    /\ idx' = [idx EXCEPT ![w] = i]
    /\ LET s == Subscript(raw_data, i)
       IN IF s.exc # ""
          THEN /\ Finish(w, Raise(s.exc), raw_data)
               /\ UNCHANGED sample
          ELSE /\ sample' = [sample EXCEPT ![w] = MkSample(s.value)]
               /\ pc' = [pc EXCEPT ![w] = "l80"]
               /\ UNCHANGED <<result, seen>>
    /\ UNCHANGED <<raw_data, transform, built, k, calls, raised>>

\* line 80: if self.transform:
GetitemTest(w) ==
    /\ pc[w] = "l80"
    /\ pc' = [pc EXCEPT ![w] = IF Truthy(transform) THEN "l81" ELSE "l82"]
    /\ UNCHANGED <<raw_data, transform, built, op, idx, sample, k, calls, raised,
                   result, seen>>

\* line 81: sample = self.transform(sample), one turn of the loop of
\* Compose.__call__ per step; the assignment happens when the loop ends.
GetitemTransform(w) ==
    /\ pc[w] = "l81"
    /\ LET ts == transform.transforms
       IN IF k[w] = Len(ts)
          THEN /\ pc' = [pc EXCEPT ![w] = "l82"]
               /\ UNCHANGED <<raw_data, sample, k, calls, raised, result, seen>>
          ELSE LET name == NextTransform(ts, k[w])
                   r == CallTransform(name, sample[w], raw_data)
               IN /\ calls' = [calls EXCEPT ![w] = Append(@, name)]
                  /\ raw_data' = r.raw
                  /\ raised' = [raised EXCEPT ![w] = r.exc]
                  /\ IF r.exc # ""
                     THEN LET res == Propagate(r.exc, sample[w])
                          IN /\ Finish(w, res, r.raw)
                             /\ UNCHANGED <<sample, k>>
                     ELSE /\ sample' = [sample EXCEPT ![w] = r.sample]
                          /\ k' = [k EXCEPT ![w] = @ + 1]
                          /\ UNCHANGED <<pc, result, seen>>
    /\ UNCHANGED <<transform, built, op, idx>>

\* line 82: return sample
GetitemReturn(w) ==
    /\ pc[w] = "l82"
    /\ Finish(w, Return(sample[w]), raw_data)
    /\ UNCHANGED <<raw_data, transform, built, op, idx, sample, k, calls, raised>>

\* The caller drops the result and is ready for its next call.
Consume(w) ==
    /\ pc[w] = "done"
    /\ pc' = [pc EXCEPT ![w] = "idle"]
    /\ op' = [op EXCEPT ![w] = "none"]
    /\ idx' = [idx EXCEPT ![w] = 0]
    /\ sample' = [sample EXCEPT ![w] = NoSample]
    /\ k' = [k EXCEPT ![w] = 0]
    /\ calls' = [calls EXCEPT ![w] = <<>>]
    /\ raised' = [raised EXCEPT ![w] = ""]
    /\ result' = [result EXCEPT ![w] = NoResult]
    /\ seen' = [seen EXCEPT ![w] = ResultContent(NoResult, raw_data)]
    /\ UNCHANGED <<raw_data, transform, built>>

\* The arrays and tensors a caller can assign into; a numpy scalar has no
\* item assignment.
Mutable(v) == v.kind \in {"ndarray", "tensor"}

\* The caller of dataset[i] assigns x to element j of the value it got:
\* result['random_vector'][j] = x.  The store goes to the memory the value
\* denotes, the dataset's buffer when the value is a view.
CallerWrite(w, j, x) ==
    /\ pc[w] = "done"
    /\ op[w] = "getitem"
    /\ result[w].tag = "return"
    /\ LET v == result[w].sample.random_vector
       IN /\ Mutable(v)
          /\ j \in 1..Prod(v.shape)
          /\ IF v.base = "raw"
             THEN /\ raw_data' = [raw_data EXCEPT !.data[v.off + j] = x]
                  /\ UNCHANGED result
             ELSE /\ result' = [result EXCEPT ![w].sample.random_vector.data[j] = x]
                  /\ UNCHANGED raw_data
    /\ UNCHANGED <<transform, built, pc, op, idx, sample, k, calls, raised, seen>>

Next ==
    \E w \in Procs :
        \/ DatasetLenCall(w)
        \/ \E i \in Indices : GetitemSample(w, i)
        \/ GetitemTest(w)
        \/ GetitemTransform(w)
        \/ GetitemReturn(w)
        \/ Consume(w)

\* The dataset used through len() and indexing only.
Spec == Init /\ [][Next]_vars

\* dataset[i] as one step: __getitem__ from entry to exit.
GetitemCall(w, i) ==
    /\ pc[w] = "idle"
    /\ op' = [op EXCEPT ![w] = "getitem"]
    /\ idx' = [idx EXCEPT ![w] = i]
    /\ LET a == GetitemAlone(raw_data, transform, i)
       IN /\ raw_data' = a.raw
          /\ Finish(w, a.res, a.raw)
    /\ UNCHANGED <<transform, built, sample, k, calls, raised>>

\* The process that indexes the dataset itself and keeps what it gets (the
\* notebook's random_vector_dataset[5]); what the worker fetches reaches
\* the user only as a collated copy.
Main == 0

NextAlias ==
    \/ DatasetLenCall(Main)
    \/ \E i \in Indices : GetitemCall(Main, i)
    \/ Consume(Main)
    \/ \E j \in 1..MaxWidth, x \in WriteVals : CallerWrite(Main, j, x)

\* The dataset used by a caller that also modifies what it was handed;
\* each call is one step.
SpecAlias == Init /\ [][NextAlias]_vars

TypeOK ==
    /\ raw_data.kind \in {"float", "ndarray"}
    /\ transform \in TransformArgs
    /\ \A w \in Procs :
        /\ pc[w] \in {"idle", "l80", "l81", "l82", "done"}
        /\ op[w] \in {"none", "len", "getitem"}
        /\ idx[w] \in Indices
        /\ k[w] \in 0..MaxTransforms
        /\ result[w].tag \in {"none", "return", "raise"}

----------------------------------------------------------------------------
\* Properties

Done(w, o) == pc[w] = "done" /\ op[w] = o

\* The shape given to the constructor and its leading dimension.
Shape0 == built.raw_data.shape
IsArray == built.raw_data.kind = "ndarray"
Size0 == Shape0[1]
ValidIndex(i) == IsArray /\ 0 <= i /\ i < Size0

\* Row r (from 0) of the array as generated: its elements, and the kind
\* and shape numpy gives the indexing expression.
RowData0(r) ==
    SubSeq(built.raw_data.data, r * Prod(Tail(Shape0)) + 1, (r + 1) * Prod(Tail(Shape0)))
RowContent0(r) ==
    [kind  |-> IF Len(Shape0) = 1 THEN "float64" ELSE "ndarray",
     shape |-> Tail(Shape0),
     data  |-> RowData0(r)]

Range(seq) == {seq[p] : p \in 1..Len(seq)}

\* C1 as stated: on a dataset holding an array, __getitem__ raises IndexError
\* for every index below 0 and every index from the size on.
C1_OutOfRangeFails ==
    \A w \in Procs :
        (Done(w, "getitem") /\ IsArray /\ (idx[w] < 0 \/ idx[w] >= Size0))
            => result[w] = Raise("IndexError")

\* C1 amended: on a dataset holding an array of size n, __getitem__ raises
\* IndexError for every index >= n and every index < -n; an index in
\* -n .. -1 raises no IndexError and selects row n + index.
C1_IndexErrorBeyondWrap ==
    \A w \in Procs :
        (Done(w, "getitem") /\ IsArray) =>
            /\ (idx[w] >= Size0 \/ idx[w] < -Size0) => result[w] = Raise("IndexError")
            /\ (idx[w] < 0 /\ idx[w] >= -Size0) =>
                /\ result[w] # Raise("IndexError")
                /\ transform = NoTransform =>
                       /\ result[w].tag = "return"
                       /\ seen[w].content = RowContent0(Size0 + idx[w])

C1_Witness ==
    \E w \in Procs :
        /\ Done(w, "getitem") /\ IsArray /\ Size0 = 2 /\ idx[w] = -1
        /\ result[w].tag = "return"
        /\ seen[w].content.data = RowData0(1)

\* C2: on a dataset built with shape [n, ...], every completed len() returned
\* n, whatever calls were made before it or are in progress.
C2_LenIsLeadingDimension ==
    \A w \in Procs :
        (Done(w, "len") /\ IsArray) => result[w] = ReturnInt(Size0)

C2_Witness ==
    \E w, v \in Procs :
        /\ Done(w, "len") /\ Shape0 = <<2, 1>> /\ result[w] = ReturnInt(2)
        /\ Done(v, "getitem")

\* C3: with transform None or an empty Compose list, __getitem__ of a valid
\* index i returns a sample whose value is row i of the array as generated,
\* with the shape of the array less its leading dimension.
C3_RawRowReturned ==
    \A w \in Procs :
        (Done(w, "getitem") /\ ValidIndex(idx[w]) /\ transform.transforms = <<>>) =>
            /\ result[w].tag = "return"
            /\ seen[w].content = RowContent0(idx[w])
            /\ Content(result[w].sample, raw_data) = RowContent0(idx[w])

C3_Witness ==
    \E w \in Procs :
        /\ Done(w, "getitem") /\ Shape0 = <<2, 2>> /\ idx[w] = 1
        /\ transform = Compose(<<>>)
        /\ seen[w].content.shape = <<2>>
        /\ seen[w].content.data = RowData0(1)

\* C4: with Compose([T1, T2]), __getitem__ of a valid index i calls T1 on the
\* raw sample, then T2 on what T1 returned, each once and in that order, and
\* returns what T2 returned; when one of them raises, the later one is not
\* called and the exception is the outcome.
C4_ComposedInOrder ==
    \A w \in Procs :
        (Done(w, "getitem") /\ ValidIndex(idx[w]) /\ Len(transform.transforms) = 2) =>
            LET ts == transform.transforms
                raw == built.raw_data
                s0 == MkSample(Subscript(raw, idx[w]).value)
                r1 == CallTransform(ts[1], s0, raw)
                r2 == CallTransform(ts[2], r1.sample, raw)
            IN IF r1.exc # ""
               THEN result[w] = Raise(r1.exc) /\ calls[w] = <<ts[1]>>
               ELSE IF r2.exc # ""
               THEN result[w] = Raise(r2.exc) /\ calls[w] = ts
               ELSE /\ result[w].tag = "return"
                    /\ seen[w].content = Content(r2.sample, raw)
                    /\ calls[w] = ts

C4_Witness ==
    \E w \in Procs :
        /\ Done(w, "getitem") /\ Shape0 = <<2, 2>> /\ idx[w] = 1
        /\ transform = Compose(<<"Add2", "ToTorchTensor">>)
        /\ seen[w].content = [kind |-> "tensor", shape |-> <<2>>, data |-> Plus2(RowData0(1))]

\* C5: two completed __getitem__ calls with the same valid index gave equal
\* samples, whatever other calls the other process made between them.
C5_GetitemIdempotent ==
    \A w, v \in Procs :
        (Done(w, "getitem") /\ Done(v, "getitem") /\ idx[w] = idx[v] /\ ValidIndex(idx[w]))
            => seen[w] = seen[v]

C5_Witness ==
    \E w, v \in Procs :
        /\ w # v /\ Done(w, "getitem") /\ Done(v, "getitem")
        /\ idx[w] = 1 /\ idx[v] = 1 /\ ValidIndex(1)
        /\ "Add2" \in Range(transform.transforms)
        /\ seen[w].tag = "return" /\ seen[v].tag = "return"

\* C6: when a transform raised during __getitem__, the call ended with that
\* exception, every transform up to the raising one was called once and none
\* after it, and the array and the transform are as constructed, so that any
\* other completed call gave what it gives on the dataset as constructed.
C6_TransformErrorPropagates ==
    \A w \in Procs :
        (Done(w, "getitem") /\ raised[w] # "") =>
            /\ result[w] = Raise(raised[w])
            /\ Len(calls[w]) <= Len(transform.transforms)
            /\ calls[w] = SubSeq(transform.transforms, 1, Len(calls[w]))
            /\ raw_data = built.raw_data
            /\ transform = built.transform
            /\ \A v \in Procs :
                  Done(v, "getitem") =>
                      result[v] = GetitemAlone(built.raw_data, built.transform, idx[v]).res

C6_Witness ==
    \E w, v \in Procs :
        /\ Done(w, "getitem") /\ raised[w] = "TypeError"
        /\ calls[w] = <<"Add2", "ToTorchTensor">>
        /\ result[w] = Raise("TypeError")
        /\ Done(v, "getitem") /\ result[v].tag = "raise" /\ Len(calls[v]) = 2

\* C7: with the main process and the worker calling without coordination,
\* every completed call gave what the same call gives when run alone on the
\* dataset as constructed, and the array is the array as constructed.
C7_InterleavingInvisible ==
    /\ raw_data = built.raw_data
    /\ \A w \in Procs :
          /\ Done(w, "len") => seen[w] = ResultContent(DatasetLen(built.raw_data), built.raw_data)
          /\ Done(w, "getitem") =>
                LET alone == GetitemAlone(built.raw_data, built.transform, idx[w])
                IN seen[w] = ResultContent(alone.res, alone.raw)

C7_Witness ==
    \E w, v \in Procs :
        /\ Done(w, "getitem") /\ result[w].tag = "return"
        /\ pc[v] = "l81" /\ k[v] = 1 /\ idx[v] = idx[w]
        /\ Len(transform.transforms) = 2

\* C8 as stated: a dataset built with shape [] or with leading dimension 0
\* returns 0 from len() and fails every __getitem__.
C8_EmptyIsSizeZero ==
    \A w \in Procs :
        (Shape0 = <<>> \/ Shape0[1] = 0) =>
            /\ Done(w, "len") => result[w] = ReturnInt(0)
            /\ Done(w, "getitem") => result[w].tag = "raise"

\* C8 amended: a dataset built with leading dimension 0 returns 0 from len()
\* and every __getitem__ raises IndexError; a dataset built with shape []
\* holds a scalar, len() raises AttributeError instead of returning 0, and
\* every __getitem__ raises TypeError.
C8_ZeroLengthAndScalar ==
    \A w \in Procs :
        /\ (IsArray /\ Size0 = 0) =>
              /\ Done(w, "len") => result[w] = ReturnInt(0)
              /\ Done(w, "getitem") => result[w] = Raise("IndexError")
        /\ Shape0 = <<>> =>
              /\ Done(w, "len") => result[w] = Raise("AttributeError")
              /\ Done(w, "getitem") => result[w] = Raise("TypeError")

C8_Witness ==
    \E w, v \in Procs :
        /\ Shape0 = <<>>
        /\ Done(w, "len") /\ result[w].tag = "raise"
        /\ Done(v, "getitem") /\ result[v].tag = "raise"

\* C9: whatever len() and __getitem__ calls were made, returned or raised,
\* the stored array and the transform are those the constructor left.
C9_NoSideEffects ==
    /\ raw_data = built.raw_data
    /\ transform = built.transform

C9_Witness ==
    \E w, v \in Procs :
        /\ Done(w, "getitem") /\ result[w].tag = "return" /\ calls[w] = <<"ToTorchTensor", "Add2">>
        /\ Done(v, "getitem") /\ result[v].tag = "raise"

HasAdd2 == "Add2" \in Range(transform.transforms)

\* C10 as stated: with no transform or with transforms that only re-wrap the
\* row, a caller assigning into the value it got leaves the stored array as
\* constructed.
C10_NoSharedStorage ==
    ~HasAdd2 => raw_data = built.raw_data

\* C10 amended: an assignment by the caller into element j of the value
\* returned by __getitem__(i) leaves the stored array alone when Add2 is among
\* the transforms (its result owns its data); with no transform or only
\* ToTorchTensor the value is a view: the assignment changes element j of row
\* i of the stored array and nothing else in it, and __getitem__(i) run
\* afterwards returns the row with the assigned element.
C10_ViewsShareStorage ==
    [][\A w \in Procs, j \in 1..MaxWidth, x \in WriteVals :
          CallerWrite(w, j, x) =>
              IF HasAdd2
              THEN raw_data' = raw_data
              ELSE LET n == raw_data.shape[1]
                       d == Prod(Tail(raw_data.shape))
                       r == IF idx[w] < 0 THEN idx[w] + n ELSE idx[w]
                       later == GetitemAlone(raw_data', transform, idx[w])
                   IN /\ raw_data' = [raw_data EXCEPT !.data[r * d + j] = x]
                      /\ Content(later.res.sample, later.raw).data[j] = x]_vars

C10_Witness ==
    \E w \in Procs :
        /\ Done(w, "getitem") /\ result[w].tag = "return"
        /\ result[w].sample.random_vector.base = "raw"
        /\ raw_data # built.raw_data
        /\ Content(result[w].sample, raw_data) # seen[w].content

====
